---- MODULE Spec2Model ----
(***************************************************************************)
(* Reward ledger and wager engine of digital-dojo (functions/index.js).    *)
(*                                                                         *)
(* The store is the Firestore collection "users", one document per uid.    *)
(* Each callable (updateUserWallet, claimRewards, spinTheWheel) runs as an *)
(* independent asynchronous task; a task is suspended only at an await.    *)
(* db.runTransaction is modelled as the store's optimistic transaction:    *)
(* the body reads a snapshot, buffers its writes, and the commit applies   *)
(* the buffer only if the document was not written since the read;         *)
(* otherwise the body is re-run, up to MaxAttempts times.  A body that     *)
(* throws rolls the transaction back and its buffered writes are dropped.  *)
(***************************************************************************)
EXTENDS Integers, Sequences, FiniteSets, TLC

(* ------------------------------ bounds --------------------------------- *)
\* the clock advances in steps of HOUR / TicksPerHour milliseconds
TicksPerHour == 2
\* last clock tick of a run
MaxTicks == 4
\* largest count of whitelisted assets the indexer reports
MaxNft == 2
\* spinTheWheel is not started on a balance above this (keeps balances finite)
MaxBalance == 10
\* attempts of one runTransaction before it gives up
MaxAttempts == 2
\* hours a single caller is followed for in SpecSolo
SoloHours == 3
\* balance of the record the store already holds when SpecSolo starts
SeedBalance == 15
\* challenge messages getAuthChallenge builds in one run of SpecAuth
MaxChallenges == 3

Procs == {"t1", "t2"}
Accounts == {"walletA", "walletB"}
\* the identities the two tasks of Spec authenticate as: both contend for one document
Callers == {"walletA"}
\* the one task of SpecSolo
SoloProcs == {"t1"}
\* context.auth is null
NoAuth == "null"

(* ------------------------- program constants --------------------------- *)
SPIN_COST == 10
HOUR == 3600000
RATE == 10

segments == << [prize |-> 20, segmentIndex |-> 0],
               [prize |-> 0, segmentIndex |-> 1],
               [prize |-> 30, segmentIndex |-> 2],
               [prize |-> 0, segmentIndex |-> 3],
               [prize |-> 20, segmentIndex |-> 4],
               [prize |-> 0, segmentIndex |-> 5] >>

(* ------------------------------ time ----------------------------------- *)
TickMs == HOUR \div TicksPerHour
Millis(tick) == tick * TickMs

\* new Date(now.getFullYear(), now.getMonth(), now.getDate(), now.getHours())
StartOfHour(t) == t - (t % HOUR)
\* new Date(..., now.getHours() - 1)
StartOfPreviousHour(t) == StartOfHour(t) - HOUR

\* Math.floor((startOfCurrentHour.getTime() - lastClaimTimestamp.toMillis()) / 3600000)
HoursToClaim(startOfCurrentHour, lastClaimTimestamp) ==
    (startOfCurrentHour - lastClaimTimestamp) \div HOUR

(* --------------------------- documents --------------------------------- *)
\* A user document.  hasBalance is FALSE when the field tetoBalance is absent
\* (updateUserWallet never writes it).
NoDoc == [exists |-> FALSE, nftCount |-> 0, hasBalance |-> FALSE,
          tetoBalance |-> 0, lastClaimTimestamp |-> 0]

\* const { tetoBalance = 0 } = userDoc.data()   /   userDoc.data().tetoBalance || 0
BalanceOrZero(doc) == IF doc.hasBalance THEN doc.tetoBalance ELSE 0

(* ---------------------------- results ---------------------------------- *)
Result(code, message) ==
    [code |-> code, message |-> message, amountClaimed |-> 0,
     prizeSegment |-> 0, prize |-> 0, nftCount |-> 0]

NoResult == Result("none", "")
Unauthenticated == Result("unauthenticated", "You must be logged in.")
UnauthenticatedSpin == Result("unauthenticated", "You must be logged in to spin.")
RetryNeeded == Result("aborted", "User profile created. Please try claiming again.")
TooEarly == Result("failed-precondition", "Next claim not available yet.")
NoReward == Result("failed-precondition", "You must hold an NFT to claim rewards.")
ClaimInternal == Result("internal", "An error occurred during the claim process.")
NotFound == Result("not-found", "User data not found.")
Insufficient == Result("failed-precondition", "Not enough TETO to spin.")
SpinInternal == Result("internal", "An error occurred during the spin.")
\* an error that is not an HttpsError leaves an onCall handler as "internal"
UpdateInternal == Result("internal", "INTERNAL")
ClaimSuccess(amount) == [Result("ok", "") EXCEPT !.amountClaimed = amount]
SpinSuccessFirstSlot(seg) ==
    [Result("ok", "") EXCEPT !.prizeSegment = 0, !.prize = seg.prize]
SpinSuccess(seg) ==
    [Result("ok", "") EXCEPT !.prizeSegment = seg.segmentIndex, !.prize = seg.prize]
UpdateSuccess(n) == [Result("ok", "") EXCEPT !.nftCount = n]

(* ------------------------- ownership oracle ---------------------------- *)
\* What the indexer does on one request: "ok" carries the number of returned
\* assets that belong to a whitelisted collection.
\* "no_config": functions.config() has no "helius" section;  "no_key": the
\* section is there and its apikey is empty.
OracleResponses ==
    [kind : {"ok"}, verified : 0..MaxNft]
      \cup [kind : {"no_config", "no_key", "http_error", "error_payload", "malformed"},
            verified : {0}]

\* const heliusApiKey = functions.config().helius.apikey  stands before the try
\* block: without a "helius" section the property read throws a TypeError,
\* which rejects the promise checkNftCountOnChain returns.
OracleThrows(ownerAddress, resp) == ownerAddress # "" /\ resp.kind = "no_config"

checkNftCountOnChain(ownerAddress, resp) ==
    IF ownerAddress = "" THEN 0
    ELSE IF resp.kind = "no_key" THEN 0
    ELSE IF resp.kind = "ok" THEN resp.verified
    ELSE 0

(* ------------------------------ state ---------------------------------- *)
VARIABLES
    users,     \* db.collection("users"): uid -> document
    clock,     \* the server clock, in ticks
    calls,     \* per task: the callable it runs and where it is suspended
    settled,   \* history: per uid, the hour start the latest committed claim settled up to (-1: none)
    paid,      \* history: per uid and hour bucket, how many committed claims credited that hour
    net,       \* history: per uid, the credits minus the debits of every committed call
    created,   \* history: per uid, the server time of the write that created the record (-1: none)
    challenges,\* db.collection("challenges"): publicKey -> the stored message (NoChallenge: no document)
    issued,    \* how many challenge messages getAuthChallenge has built so far
    logins,    \* per task: the sign-in callable it runs and where it is suspended
    tokens     \* history: per challenge message, how many custom tokens were returned for it

vars == << users, clock, calls, settled, paid, net, created, challenges, issued, logins, tokens >>

Now == Millis(clock)
SoloTicks == SoloHours * TicksPerHour + 1
MaxHours == ((IF SoloTicks > MaxTicks THEN SoloTicks ELSE MaxTicks) \div TicksPerHour) + 1
Buckets == 0..MaxHours

(* the sign-in store *)
\* the public keys sign-in is asked for; "" is a request without publicKey
AuthKeys == {"walletA"}
NoKey == ""
\* A challenge message is identified by the order in which getAuthChallenge
\* built it: the nonce and the issue time make every message text different.
Messages == 1..MaxChallenges
NoChallenge == 0
\* A signature is named by the message the key's owner signed: NoSignature is
\* a request without signature, BadEncoding is text bs58.decode rejects, and
\* MaxChallenges + 1 is a well-formed signature of no message ever issued.
NoSignature == 0
BadEncoding == -1
Signatures == {BadEncoding, NoSignature} \cup Messages \cup {MaxChallenges + 1}

IdleLogin == [pc |-> "idle", op |-> "none", publicKey |-> NoKey, signature |-> NoSignature,
              message |-> NoChallenge, isVerified |-> FALSE, code |-> "none"]

Idle == [pc |-> "idle", op |-> "none", uid |-> NoAuth, attempts |-> 0, stale |-> FALSE,
         doc |-> NoDoc, writes |-> NoDoc, startOfCurrentHour |-> 0, hoursToClaim |-> 0,
         currentNftCount |-> 0, randomNumber |-> 0, ret |-> 0, seg |-> 0,
         result |-> NoResult]

Init ==
    /\ users = [a \in Accounts |-> NoDoc]
    /\ clock = 0
    /\ calls = [p \in Procs |-> Idle]
    /\ settled = [a \in Accounts |-> -1]
    /\ paid = [a \in Accounts |-> [b \in Buckets |-> 0]]
    /\ net = [a \in Accounts |-> 0]
    /\ created = [a \in Accounts |-> -1]
    /\ challenges = [k \in AuthKeys |-> NoChallenge]
    /\ issued = 0
    /\ logins = [p \in Procs |-> IdleLogin]
    /\ tokens = [m \in Messages |-> 0]

\* a record the store already holds when the functions are deployed
SeededDoc == [exists |-> TRUE, nftCount |-> 0, hasBalance |-> TRUE,
              tetoBalance |-> SeedBalance, lastClaimTimestamp |-> 0]

SeededDocs == {NoDoc, SeededDoc}

InitSolo ==
    /\ users \in { [a \in Accounts |-> IF a \in Callers THEN d ELSE NoDoc] :
                     d \in SeededDocs }
    /\ clock = 0
    /\ calls = [p \in Procs |-> Idle]
    /\ settled = [a \in Accounts |-> -1]
    /\ paid = [a \in Accounts |-> [b \in Buckets |-> 0]]
    /\ net = [a \in Accounts |-> BalanceOrZero(users[a])]
    /\ created = [a \in Accounts |-> -1]
    /\ challenges = [k \in AuthKeys |-> NoChallenge]
    /\ issued = 0
    /\ logins = [p \in Procs |-> IdleLogin]
    /\ tokens = [m \in Messages |-> 0]

(* ----------------------- transaction mechanism ------------------------- *)
\* The commit of a transaction succeeds iff the document it read was not
\* written by anyone else since the read.
CommitAlways(stale) == TRUE
CommitOk(stale) == ~stale

\* A committed write to users/a invalidates every transaction that has read
\* users/a and has not committed yet.
InvalidateNone(cs, a, p) == cs
InvalidateAnyAccount(cs, a, p) ==
    [q \in Procs |->
        IF q # p /\ cs[q].pc \in {"oracle", "commit"}
              /\ cs[q].op \in {"claimRewards", "spinTheWheel"}
        THEN [cs[q] EXCEPT !.stale = TRUE]
        ELSE cs[q]]
Invalidate(cs, a, p) ==
    [q \in Procs |->
        IF q # p /\ cs[q].uid = a /\ cs[q].pc \in {"oracle", "commit"}
              /\ cs[q].op \in {"claimRewards", "spinTheWheel"}
        THEN [cs[q] EXCEPT !.stale = TRUE]
        ELSE cs[q]]

\* the callable settles: only its identity and what it returned are kept
Finish(c, res) ==
    [Idle EXCEPT !.pc = "done", !.op = c.op, !.uid = c.uid, !.result = res]

(* --------------------------- updateUserWallet -------------------------- *)
\* userDocRef.set({walletAddress, nftCount, lastClaimTimestamp: serverTimestamp()}, {merge: true})
\* startOfPreviousHour is computed by the handler and never used.
UpdateSet(doc, nftCount, serverTime) ==
    [doc EXCEPT !.exists = TRUE, !.nftCount = nftCount,
                !.lastClaimTimestamp = serverTime]

\* if (!context.auth) throw new HttpsError("unauthenticated", ...)
AuthenticatedAlways(auth) == TRUE
Authenticated(auth) == auth # NoAuth

\* entry of a callable: the context.auth check, then up to the first await
CallWithin(p, op, auth, maxBalance) ==
    /\ calls[p].pc \in {"idle", "done"}
    /\ op = "spinTheWheel" /\ auth # NoAuth => BalanceOrZero(users[auth]) <= maxBalance
    /\ calls' = [calls EXCEPT ![p] =
         IF ~Authenticated(auth)
         THEN Finish([Idle EXCEPT !.op = op],
                     IF op = "spinTheWheel" THEN UnauthenticatedSpin ELSE Unauthenticated)
         ELSE [Idle EXCEPT !.op = op, !.uid = auth,
                           !.pc = IF op = "updateUserWallet" THEN "oracle" ELSE "get",
                           !.attempts = IF op = "updateUserWallet" THEN 0 ELSE 1]]
    /\ UNCHANGED << users, clock, settled, paid, net, created, challenges, issued, logins, tokens >>

Call(p, op, auth) == CallWithin(p, op, auth, MaxBalance)
\* in SpecPair every task signs in as an account of its own
PairCaller(p) == IF p = "t1" THEN "walletA" ELSE "walletB"
CallPair(p, op) == CallWithin(p, op, PairCaller(p), MaxBalance)
CallSolo(p, op, auth) == CallWithin(p, op, auth, SeedBalance)

\* const nftCount = await checkNftCountOnChain(uid)
UpdateOracle(p, resp) ==
    /\ calls[p].pc = "oracle" /\ calls[p].op = "updateUserWallet"
    /\ calls' = [calls EXCEPT ![p] =
         IF OracleThrows(calls[p].uid, resp)
         THEN Finish(calls[p], UpdateInternal)
         ELSE [calls[p] EXCEPT !.pc = "set",
                               !.currentNftCount = checkNftCountOnChain(calls[p].uid, resp)]]
    /\ UNCHANGED << users, clock, settled, paid, net, created, challenges, issued, logins, tokens >>

\* await userDocRef.set(..., {merge: true}); return {success: true, nftCount}
UpdateWrite(p) ==
    /\ calls[p].pc = "set" /\ calls[p].op = "updateUserWallet"
    /\ LET a == calls[p].uid
           n == calls[p].currentNftCount
       IN /\ users' = [users EXCEPT ![a] = UpdateSet(users[a], n, Now)]
          /\ calls' = [Invalidate(calls, a, p) EXCEPT ![p] = Finish(calls[p], UpdateSuccess(n))]
          /\ created' = IF users[a].exists THEN created ELSE [created EXCEPT ![a] = Now]
    /\ UNCHANGED << clock, settled, paid, net, challenges, issued, logins, tokens >>

(* ----------------------------- claimRewards ---------------------------- *)
TooEarlyOffByOne(hoursToClaim) == hoursToClaim < 0
IsTooEarly(hoursToClaim) == hoursToClaim < 1

TotalRewardsNoCount(hoursToClaim, currentNftCount) == hoursToClaim * RATE
TotalRewards(hoursToClaim, currentNftCount) == hoursToClaim * currentNftCount * RATE

\* The document as the transaction's buffered updates leave it (lines 171-185).
ClaimWritesKeepTimestampOnZero(doc, startOfCurrentHour, hoursToClaim, currentNftCount) ==
    LET d1 == IF currentNftCount # doc.nftCount
              THEN [doc EXCEPT !.nftCount = currentNftCount] ELSE doc
    IN IF currentNftCount <= 0 THEN d1
       ELSE [d1 EXCEPT !.hasBalance = TRUE,
                       !.tetoBalance = BalanceOrZero(doc)
                                         + TotalRewards(hoursToClaim, currentNftCount),
                       !.lastClaimTimestamp = startOfCurrentHour]
ClaimWritesKeepTimestamp(doc, startOfCurrentHour, hoursToClaim, currentNftCount) ==
    LET d1 == IF currentNftCount # doc.nftCount
              THEN [doc EXCEPT !.nftCount = currentNftCount] ELSE doc
    IN IF currentNftCount <= 0
       THEN [d1 EXCEPT !.lastClaimTimestamp = startOfCurrentHour]
       ELSE [d1 EXCEPT !.hasBalance = TRUE,
                       !.tetoBalance = BalanceOrZero(doc)
                                         + TotalRewards(hoursToClaim, currentNftCount)]
ClaimWritesSkipCountOnZero(doc, startOfCurrentHour, hoursToClaim, currentNftCount) ==
    IF currentNftCount <= 0
    THEN [doc EXCEPT !.lastClaimTimestamp = startOfCurrentHour]
    ELSE [doc EXCEPT !.nftCount = currentNftCount, !.hasBalance = TRUE,
                     !.tetoBalance = BalanceOrZero(doc)
                                       + TotalRewards(hoursToClaim, currentNftCount),
                     !.lastClaimTimestamp = startOfCurrentHour]
ClaimWrites(doc, startOfCurrentHour, hoursToClaim, currentNftCount) ==
    LET d1 == IF currentNftCount # doc.nftCount
              THEN [doc EXCEPT !.nftCount = currentNftCount] ELSE doc
        totalRewards == TotalRewards(hoursToClaim, currentNftCount)
    IN IF currentNftCount <= 0
       THEN [d1 EXCEPT !.lastClaimTimestamp = startOfCurrentHour]
       ELSE IF totalRewards <= 0 THEN d1
       ELSE [d1 EXCEPT !.hasBalance = TRUE,
                       !.tetoBalance = BalanceOrZero(doc) + totalRewards,
                       !.lastClaimTimestamp = startOfCurrentHour]

\* the value the transaction body returns (lines 175-185)
ClaimReturn(hoursToClaim, currentNftCount) ==
    IF currentNftCount <= 0 THEN 0
    ELSE IF TotalRewards(hoursToClaim, currentNftCount) <= 0 THEN 0
    ELSE TotalRewards(hoursToClaim, currentNftCount)

\* the document the not-exists branch buffers with transaction.set (lines 153-161)
ClaimCreateDoc(nftCount, now) ==
    [exists |-> TRUE, nftCount |-> nftCount, hasBalance |-> TRUE, tetoBalance |-> 0,
     lastClaimTimestamp |-> StartOfPreviousHour(now)]

\* const userDoc = await transaction.get(userDocRef), then up to the next await or throw
ClaimGet(p) ==
    /\ calls[p].pc = "get" /\ calls[p].op = "claimRewards"
    /\ LET doc == users[calls[p].uid]
           startOfCurrentHour == StartOfHour(Now)
           hoursToClaim == HoursToClaim(startOfCurrentHour, doc.lastClaimTimestamp)
       IN calls' = [calls EXCEPT ![p] =
            IF ~doc.exists
            THEN [calls[p] EXCEPT !.pc = "oracle", !.doc = doc, !.stale = FALSE]
            ELSE IF IsTooEarly(hoursToClaim)
            THEN Finish(calls[p], TooEarly)
            ELSE [calls[p] EXCEPT !.pc = "oracle", !.doc = doc, !.stale = FALSE,
                                  !.startOfCurrentHour = startOfCurrentHour,
                                  !.hoursToClaim = hoursToClaim]]
    /\ UNCHANGED << users, clock, settled, paid, net, created, challenges, issued, logins, tokens >>

\* What the store holds after a transaction body threw: runTransaction rolls
\* the transaction back, so the writes the body buffered are never applied.
CommitOnThrow(doc, buffered) == buffered
AfterThrow(doc, buffered) == doc

\* not-exists branch: await checkNftCountOnChain(uid); transaction.set(...); throw "aborted".
\* The throw rejects the transaction body: the transaction is rolled back, the
\* buffered set is dropped, and the HttpsError reaches the caller.  An oracle
\* that throws rejects the body before the set; .catch turns it into "internal".
ClaimCreate(p, resp) ==
    /\ calls[p].pc = "oracle" /\ calls[p].op = "claimRewards" /\ ~calls[p].doc.exists
    /\ LET nftCount == checkNftCountOnChain(calls[p].uid, resp)
           buffered == ClaimCreateDoc(nftCount, Now)
       IN /\ users' = [users EXCEPT ![calls[p].uid] = AfterThrow(@, buffered)]
          /\ calls' = [calls EXCEPT ![p] =
                Finish(calls[p], IF OracleThrows(calls[p].uid, resp)
                                 THEN ClaimInternal ELSE RetryNeeded)]
          /\ created' = IF users[calls[p].uid].exists = users'[calls[p].uid].exists
                        THEN created ELSE [created EXCEPT ![calls[p].uid] = Now]
    /\ UNCHANGED << clock, settled, paid, net, challenges, issued, logins, tokens >>

\* const currentNftCount = await checkNftCountOnChain(uid); the buffered updates; return
ClaimOracle(p, resp) ==
    /\ calls[p].pc = "oracle" /\ calls[p].op = "claimRewards" /\ calls[p].doc.exists
    /\ LET c == calls[p]
           n == checkNftCountOnChain(c.uid, resp)
       IN calls' = [calls EXCEPT ![p] =
            IF OracleThrows(c.uid, resp)
            THEN Finish(c, ClaimInternal)
            ELSE [c EXCEPT !.pc = "commit", !.currentNftCount = n,
                           !.writes = ClaimWrites(c.doc, c.startOfCurrentHour, c.hoursToClaim, n),
                           !.ret = ClaimReturn(c.hoursToClaim, n)]]
    /\ UNCHANGED << users, clock, settled, paid, net, created, challenges, issued, logins, tokens >>

\* hour buckets a committed claim credits: the hoursToClaim hours that end at startOfCurrentHour
CreditedBuckets(c) ==
    IF c.ret > 0
    THEN { b \in Buckets : /\ b * HOUR < c.startOfCurrentHour
                           /\ b * HOUR >= c.startOfCurrentHour - c.hoursToClaim * HOUR }
    ELSE {}

\* the transaction commits; .then(amountClaimed => ...)
ClaimCommit(p) ==
    /\ calls[p].pc = "commit" /\ calls[p].op = "claimRewards"
    /\ CommitOk(calls[p].stale)
    /\ LET c == calls[p]
           a == c.uid
       IN /\ users' = [users EXCEPT ![a] = c.writes]
          /\ calls' = [Invalidate(calls, a, p) EXCEPT ![p] =
                IF c.ret > 0
                THEN [Finish(c, ClaimSuccess(c.ret)) EXCEPT
                         !.startOfCurrentHour = c.startOfCurrentHour,
                         !.hoursToClaim = c.hoursToClaim,
                         !.currentNftCount = c.currentNftCount]
                ELSE Finish(c, NoReward)]
          /\ settled' = [settled EXCEPT ![a] = c.startOfCurrentHour]
          /\ paid' = [paid EXCEPT ![a] =
                [b \in Buckets |-> IF b \in CreditedBuckets(c) THEN paid[a][b] + 1 ELSE paid[a][b]]]
          /\ net' = [net EXCEPT ![a] = @ + c.ret]
    /\ UNCHANGED << clock, created, challenges, issued, logins, tokens >>

(* ----------------------------- spinTheWheel ---------------------------- *)
\* if (!userDoc.exists) throw new HttpsError("not-found", ...)
AccountNeverMissing(doc) == FALSE
AccountMissing(doc) == ~doc.exists

NeverInsufficient(currentBalance) == FALSE
InsufficientBalance(currentBalance) == currentBalance < SPIN_COST

\* segments.filter(s => s.prize === prize)
SegmentsWithPrizeFirstOnly(prize) ==
    SubSeq(SelectSeq(segments, LAMBDA s : s.prize = prize), 1, 1)
SegmentsWithPrize(prize) == SelectSeq(segments, LAMBDA s : s.prize = prize)

\* Math.random() in hundredths: the values next to the thresholds and the ends
RandomDraws == {0, 59, 60, 89, 90, 99}
SecondDraws == {0, 50, 99}
\* options[Math.floor(Math.random() * options.length)]
PickOption(options, random) == options[((random * Len(options)) \div 100) + 1]
PickSegmentInclusive(randomNumber, random2) ==
    IF randomNumber <= 60 THEN PickOption(SegmentsWithPrize(0), random2)
    ELSE IF randomNumber <= 90 THEN PickOption(SegmentsWithPrize(20), random2)
    ELSE SegmentsWithPrize(30)[1]
PickSegment(randomNumber, random2) ==
    IF randomNumber < 60 THEN PickOption(SegmentsWithPrize(0), random2)
    ELSE IF randomNumber < 90 THEN PickOption(SegmentsWithPrize(20), random2)
    ELSE SegmentsWithPrize(30)[1]

\* transaction.update(userDocRef, {tetoBalance: currentBalance - SPIN_COST + result.prize})
SpinWritesNoCost(doc, currentBalance, prize) ==
    [doc EXCEPT !.hasBalance = TRUE, !.tetoBalance = currentBalance + prize]
SpinWritesClearCount(doc, currentBalance, prize) ==
    [doc EXCEPT !.hasBalance = TRUE, !.tetoBalance = currentBalance - SPIN_COST + prize,
                !.nftCount = 0]
SpinWrites(doc, currentBalance, prize) ==
    [doc EXCEPT !.hasBalance = TRUE, !.tetoBalance = currentBalance - SPIN_COST + prize]

\* the whole transaction body: it has no await after transaction.get
SpinGet(p, randomNumber, random2) ==
    /\ calls[p].pc = "get" /\ calls[p].op = "spinTheWheel"
    /\ LET doc == users[calls[p].uid]
           currentBalance == BalanceOrZero(doc)
           result == PickSegment(randomNumber, random2)
       IN calls' = [calls EXCEPT ![p] =
            IF AccountMissing(doc) THEN Finish(calls[p], NotFound)
            ELSE IF InsufficientBalance(currentBalance)
            THEN [Finish(calls[p], Insufficient) EXCEPT !.attempts = calls[p].attempts]
            ELSE [calls[p] EXCEPT !.pc = "commit", !.doc = doc, !.stale = FALSE,
                                  !.writes = SpinWrites(doc, currentBalance, result.prize),
                                  !.randomNumber = randomNumber,
                                  !.seg = result.segmentIndex, !.ret = result.prize]]
    /\ UNCHANGED << users, clock, settled, paid, net, created, challenges, issued, logins, tokens >>

SpinCommit(p) ==
    /\ calls[p].pc = "commit" /\ calls[p].op = "spinTheWheel"
    /\ CommitOk(calls[p].stale)
    /\ LET c == calls[p]
           a == c.uid
       IN /\ users' = [users EXCEPT ![a] = c.writes]
          /\ calls' = [Invalidate(calls, a, p) EXCEPT ![p] =
                Finish(c, SpinSuccess([prize |-> c.ret, segmentIndex |-> c.seg]))]
          /\ net' = [net EXCEPT ![a] = @ - SPIN_COST + c.ret]
    /\ UNCHANGED << clock, settled, paid, created, challenges, issued, logins, tokens >>

(* ------------------- conflicts of either transaction ------------------- *)
\* the commit is refused: the body is run again
TxnRetryNoCount(p) ==
    /\ calls[p].pc = "commit" /\ ~CommitOk(calls[p].stale)
    /\ calls' = [calls EXCEPT ![p] =
         [calls[p] EXCEPT !.pc = "get", !.stale = FALSE,
                          !.doc = NoDoc, !.writes = NoDoc, !.randomNumber = 0,
                          !.ret = 0, !.seg = 0]]
    /\ UNCHANGED << users, clock, settled, paid, net, created, challenges, issued, logins, tokens >>
TxnRetry(p) ==
    /\ calls[p].pc = "commit" /\ ~CommitOk(calls[p].stale)
    /\ calls[p].attempts < MaxAttempts
    /\ calls' = [calls EXCEPT ![p] =
         [calls[p] EXCEPT !.pc = "get", !.attempts = @ + 1, !.stale = FALSE,
                          !.doc = NoDoc, !.writes = NoDoc, !.randomNumber = 0,
                          !.ret = 0, !.seg = 0]]
    /\ UNCHANGED << users, clock, settled, paid, net, created, challenges, issued, logins, tokens >>

\* attempts exhausted: runTransaction rejects with the store's error, which the
\* .catch turns into "internal"
TxnExhausted(p) ==
    /\ calls[p].pc = "commit" /\ ~CommitOk(calls[p].stale)
    /\ calls[p].attempts >= MaxAttempts
    /\ calls' = [calls EXCEPT ![p] =
         [Finish(calls[p],
                 IF calls[p].op = "claimRewards" THEN ClaimInternal ELSE SpinInternal)
            EXCEPT !.attempts = calls[p].attempts]]
    /\ UNCHANGED << users, clock, settled, paid, net, created, challenges, issued, logins, tokens >>

(* ------------------- getAuthChallenge, verifyAuthSignature ------------- *)
ledgerVars == << users, clock, calls, settled, paid, net, created >>

\* the sign-in callable settles with an error code or "ok"
FinishLogin(l, code) == [l EXCEPT !.pc = "done", !.code = code]

\* getAuthChallenge up to  await challengeRef.set(...):  the argument check and
\* the message built from a new nonce and the issue time
ChallengeCall(p, publicKey) ==
    /\ logins[p].pc \in {"idle", "done"}
    /\ issued < MaxChallenges
    /\ IF publicKey = NoKey
       THEN /\ logins' = [logins EXCEPT ![p] =
                   FinishLogin([IdleLogin EXCEPT !.op = "getAuthChallenge"], "invalid-argument")]
            /\ UNCHANGED issued
       ELSE /\ logins' = [logins EXCEPT ![p] =
                   [IdleLogin EXCEPT !.op = "getAuthChallenge", !.pc = "set",
                                     !.publicKey = publicKey, !.message = issued + 1]]
            /\ issued' = issued + 1
    /\ UNCHANGED << ledgerVars, challenges, tokens >>

\* await challengeRef.set({message, createdAt}); return {message}
ChallengeSet(p) ==
    /\ logins[p].pc = "set" /\ logins[p].op = "getAuthChallenge"
    /\ challenges' = [challenges EXCEPT ![logins[p].publicKey] = logins[p].message]
    /\ logins' = [logins EXCEPT ![p] = FinishLogin(logins[p], "ok")]
    /\ UNCHANGED << ledgerVars, issued, tokens >>

\* verifyAuthSignature up to  await challengeRef.get()
VerifyCall(p, publicKey, signature) ==
    /\ logins[p].pc \in {"idle", "done"}
    /\ logins' = [logins EXCEPT ![p] =
         IF publicKey = NoKey \/ signature = NoSignature
         THEN FinishLogin([IdleLogin EXCEPT !.op = "verifyAuthSignature",
                                            !.publicKey = publicKey, !.signature = signature],
                          "invalid-argument")
         ELSE [IdleLogin EXCEPT !.op = "verifyAuthSignature", !.pc = "get",
                                !.publicKey = publicKey, !.signature = signature]]
    /\ UNCHANGED << ledgerVars, challenges, issued, tokens >>

\* bs58.decode(signature) throws on text that is not base58; otherwise
\* nacl.sign.detached.verify(messageBytes, signatureBytes, publicKeyBytes)
SignatureVerifiesAnyMessage(message, signature) ==
    signature # BadEncoding
SignatureVerifies(message, signature) ==
    signature # BadEncoding /\ signature = message

\* the get resolves: no document -> "not-found"; otherwise the signature is
\* checked against the message read, and both the try block and the catch
\* block go on to  await challengeRef.delete()
VerifyGet(p) ==
    /\ logins[p].pc = "get" /\ logins[p].op = "verifyAuthSignature"
    /\ LET stored == challenges[logins[p].publicKey]
       IN logins' = [logins EXCEPT ![p] =
            IF stored = NoChallenge
            THEN FinishLogin(logins[p], "not-found")
            ELSE [logins[p] EXCEPT !.pc = "delete", !.message = stored,
                      !.isVerified = SignatureVerifies(stored, logins[p].signature)]]
    /\ UNCHANGED << ledgerVars, challenges, issued, tokens >>

\* challengeRef.delete(): the document of the key, whatever it holds by now
DeleteSkipped(stored) == stored
Deleted(stored) == NoChallenge

\* the delete resolves: the try block goes on to createCustomToken, the catch
\* block throws "unauthenticated"
VerifyDelete(p) ==
    /\ logins[p].pc = "delete" /\ logins[p].op = "verifyAuthSignature"
    /\ challenges' = [challenges EXCEPT ![logins[p].publicKey] = Deleted(@)]
    /\ logins' = [logins EXCEPT ![p] =
         IF logins[p].isVerified
         THEN [logins[p] EXCEPT !.pc = "token"]
         ELSE FinishLogin(logins[p], "unauthenticated")]
    /\ UNCHANGED << ledgerVars, issued, tokens >>

\* await admin.auth().createCustomToken(publicKey): it returns the token, or
\* it throws into the catch block, which deletes again and throws
VerifyToken(p, created_ok) ==
    /\ logins[p].pc = "token" /\ logins[p].op = "verifyAuthSignature"
    /\ IF created_ok
       THEN /\ logins' = [logins EXCEPT ![p] = FinishLogin(logins[p], "ok")]
            /\ tokens' = [tokens EXCEPT ![logins[p].message] = @ + 1]
       ELSE /\ logins' = [logins EXCEPT ![p] =
                   [logins[p] EXCEPT !.pc = "delete", !.isVerified = FALSE]]
            /\ UNCHANGED tokens
    /\ UNCHANGED << ledgerVars, challenges, issued >>

(* ------------------------------ the clock ------------------------------ *)
TickWithin(maxTicks) ==
    /\ clock < maxTicks
    /\ clock' = clock + 1
    /\ UNCHANGED << users, calls, settled, paid, net, created, challenges, issued, logins, tokens >>

Tick == TickWithin(MaxTicks)
TickPair == TickWithin(TicksPerHour)
TickSolo == TickWithin(SoloTicks)

Ops == {"updateUserWallet", "claimRewards", "spinTheWheel"}

Next ==
    \/ \E p \in Procs, op \in Ops, auth \in Callers \cup {NoAuth} : Call(p, op, auth)
    \/ \E p \in Procs, resp \in OracleResponses : UpdateOracle(p, resp)
    \/ \E p \in Procs : UpdateWrite(p)
    \/ \E p \in Procs : ClaimGet(p)
    \/ \E p \in Procs, resp \in OracleResponses : ClaimCreate(p, resp)
    \/ \E p \in Procs, resp \in OracleResponses : ClaimOracle(p, resp)
    \/ \E p \in Procs : ClaimCommit(p)
    \/ \E p \in Procs, r \in RandomDraws, r2 \in SecondDraws : SpinGet(p, r, r2)
    \/ \E p \in Procs : SpinCommit(p)
    \/ \E p \in Procs : TxnRetry(p)
    \/ \E p \in Procs : TxnExhausted(p)
    \/ Tick

Spec == Init /\ [][Next]_vars

\* One caller, one call at a time, over SoloHours hours, starting either from
\* an empty store or from a store that holds SeededDoc.  A single task never
\* meets a conflict, so the two conflict actions are not part of it.
NextSolo ==
    \/ \E p \in SoloProcs, op \in Ops, auth \in Callers \cup {NoAuth} : CallSolo(p, op, auth)
    \/ \E p \in SoloProcs, resp \in OracleResponses : UpdateOracle(p, resp)
    \/ \E p \in SoloProcs : UpdateWrite(p)
    \/ \E p \in SoloProcs : ClaimGet(p)
    \/ \E p \in SoloProcs, resp \in OracleResponses : ClaimCreate(p, resp)
    \/ \E p \in SoloProcs, resp \in OracleResponses : ClaimOracle(p, resp)
    \/ \E p \in SoloProcs : ClaimCommit(p)
    \/ \E p \in SoloProcs, r \in RandomDraws, r2 \in SecondDraws : SpinGet(p, r, r2)
    \/ \E p \in SoloProcs : SpinCommit(p)
    \/ TickSolo

SpecSolo == InitSolo /\ [][NextSolo]_vars

\* Two tasks, each calling for an account of its own, over the first hour.
\* The oracle answers with a count; the wheel pays nothing or the jackpot.
PairResponses == { resp \in OracleResponses : resp.kind = "ok" }
PairDraws == {0, 99}
NextPair ==
    \/ \E p \in Procs, op \in Ops : CallPair(p, op)
    \/ \E p \in Procs, resp \in PairResponses : UpdateOracle(p, resp)
    \/ \E p \in Procs : UpdateWrite(p)
    \/ \E p \in Procs : ClaimGet(p)
    \/ \E p \in Procs, resp \in PairResponses : ClaimCreate(p, resp)
    \/ \E p \in Procs, resp \in PairResponses : ClaimOracle(p, resp)
    \/ \E p \in Procs : ClaimCommit(p)
    \/ \E p \in Procs, r \in PairDraws : SpinGet(p, r, 0)
    \/ \E p \in Procs : SpinCommit(p)
    \/ TickPair

SpecPair == Init /\ [][NextPair]_vars

\* The sign-in callables of two tasks on the challenge store; the ledger is idle.
NextAuth ==
    \/ \E p \in Procs, k \in AuthKeys \cup {NoKey} : ChallengeCall(p, k)
    \/ \E p \in Procs : ChallengeSet(p)
    \/ \E p \in Procs, k \in AuthKeys \cup {NoKey}, sig \in Signatures : VerifyCall(p, k, sig)
    \/ \E p \in Procs : VerifyGet(p)
    \/ \E p \in Procs : VerifyDelete(p)
    \/ \E p \in Procs, created_ok \in BOOLEAN : VerifyToken(p, created_ok)

SpecAuth == Init /\ [][NextAuth]_vars

(* ======================= properties of the ledger ====================== *)
\* task p passes the given suspension point in this step
ClaimGetStep(p) ==
    calls[p].pc = "get" /\ calls[p].op = "claimRewards" /\ calls'[p] # calls[p]
Committed(p) ==
    calls[p].pc = "commit" /\ calls'[p].pc = "done" /\ calls'[p].result.code # "internal"
UpdateWriteStep(p) ==
    calls[p].pc = "set" /\ calls'[p].pc = "done"
SpinGetStep(p) ==
    calls[p].pc = "get" /\ calls[p].op = "spinTheWheel" /\ calls'[p] # calls[p]
\* task p hands a failure to its caller in this step
FailureReturned(p) ==
    /\ calls[p].pc # "done" /\ calls'[p].pc = "done"
    /\ calls'[p].op \in {"claimRewards", "spinTheWheel"}
    /\ calls'[p].result.code # "ok"

\* C1: in every reachable state every stored balance is >= 0.
C1_BalanceNonNegative ==
    \A a \in Accounts :
        users[a].exists /\ users[a].hasBalance => users[a].tetoBalance >= 0

\* a wager lost on a balance of exactly SPIN_COST that an earlier claim had credited
C1_Witness ==
    \E p \in Procs :
        /\ calls[p].pc = "done" /\ calls[p].op = "spinTheWheel"
        /\ calls[p].result.code = "ok" /\ calls[p].result.prize = 0
        /\ users[calls[p].uid].hasBalance /\ users[calls[p].uid].tetoBalance = 0
        /\ \E b \in Buckets : paid[calls[p].uid][b] = 1

\* C2: two claimRewards calls of one account that both credited did not credit
\* the same hour: the hours each paid for are disjoint.
C2_ConcurrentClaimsCreditOnce ==
    \A p, q \in Procs :
        ( /\ p # q
          /\ calls[p].op = "claimRewards" /\ calls[q].op = "claimRewards"
          /\ calls[p].uid = calls[q].uid
          /\ calls[p].pc = "done" /\ calls[q].pc = "done"
          /\ calls[p].result.code = "ok" /\ calls[q].result.code = "ok" )
        => \/ calls[p].startOfCurrentHour - calls[p].hoursToClaim * 3600000
                >= calls[q].startOfCurrentHour
           \/ calls[q].startOfCurrentHour - calls[q].hoursToClaim * 3600000
                >= calls[p].startOfCurrentHour

\* one claim has credited while a concurrent claim of the same account, which
\* had read the same snapshot and buffered a credit for the same hours, is
\* still waiting to commit
C2_Witness ==
    \E p, q \in Procs :
        /\ p # q /\ calls[p].uid = calls[q].uid
        /\ calls[p].op = "claimRewards" /\ calls[p].pc = "done"
        /\ calls[p].result.code = "ok"
        /\ calls[q].op = "claimRewards" /\ calls[q].pc = "commit"
        /\ calls[q].ret > 0 /\ calls[q].stale
        /\ calls[q].startOfCurrentHour = calls[p].startOfCurrentHour

\* C3: once a claim has settled an account up to the current hour start, a
\* claimRewards call that reads the record in that same hour fails with
\* TOO_EARLY and writes nothing.
C3_SecondClaimTooEarly ==
    [][ \A p \in Procs :
          ( /\ ClaimGetStep(p)
            /\ users[calls[p].uid].exists
            /\ settled[calls[p].uid] = Now - (Now % 3600000) )
          => ( /\ calls'[p].pc = "done"
               /\ calls'[p].result = TooEarly
               /\ users' = users ) ]_vars

C3_Witness ==
    \E p \in Procs :
        /\ calls[p].pc = "done" /\ calls[p].op = "claimRewards"
        /\ calls[p].result = TooEarly
        /\ settled[calls[p].uid] = Now - (Now % 3600000)
        /\ users[calls[p].uid].lastClaimTimestamp = settled[calls[p].uid]
        /\ \E b \in Buckets : paid[calls[p].uid][b] = 1

\* C4: a committed claim with h >= 1 elapsed hours and fresh count n >= 1 adds
\* exactly h * n * 10 to the stored balance, sets lastClaimTimestamp to the
\* hour start the call computed, and returns success with amountClaimed = h * n * 10.
C4_ClaimCreditsExactly ==
    [][ \A p \in Procs :
          LET a == calls[p].uid
              h == (calls[p].startOfCurrentHour - users[a].lastClaimTimestamp) \div 3600000
              n == calls[p].currentNftCount
          IN ( /\ Committed(p) /\ calls[p].op = "claimRewards"
               /\ h >= 1 /\ n >= 1 )
             => ( /\ users'[a].hasBalance
                  /\ users'[a].tetoBalance
                        = (IF users[a].hasBalance THEN users[a].tetoBalance ELSE 0) + h * n * 10
                  /\ users'[a].lastClaimTimestamp = calls[p].startOfCurrentHour
                  /\ calls'[p].result.code = "ok"
                  /\ calls'[p].result.amountClaimed = h * n * 10 ) ]_vars

\* two hours and two assets: 40 credited on top of nothing
C4_Witness ==
    \E p \in Procs :
        /\ calls[p].pc = "done" /\ calls[p].op = "claimRewards"
        /\ calls[p].result.code = "ok"
        /\ calls[p].hoursToClaim = 2 /\ calls[p].currentNftCount = 2
        /\ calls[p].result.amountClaimed = 40
        /\ users[calls[p].uid].tetoBalance = 40
        /\ users[calls[p].uid].lastClaimTimestamp = calls[p].startOfCurrentHour

\* C5: a committed claim whose fresh count is 0 advances lastClaimTimestamp to
\* the hour start the call computed and leaves the balance as it was.
C5_ZeroCountAdvancesOnly ==
    [][ \A p \in Procs :
          LET a == calls[p].uid
          IN ( /\ Committed(p) /\ calls[p].op = "claimRewards"
               /\ calls[p].currentNftCount = 0 )
             => ( /\ users'[a].lastClaimTimestamp = calls[p].startOfCurrentHour
                  /\ users'[a].hasBalance = users[a].hasBalance
                  /\ users'[a].tetoBalance = users[a].tetoBalance ) ]_vars

\* a zero-count claim has moved the timestamp of a record that holds a balance
C5_Witness ==
    \E p \in Procs :
        /\ calls[p].pc = "done" /\ calls[p].op = "claimRewards"
        /\ calls[p].result = NoReward
        /\ users[calls[p].uid].lastClaimTimestamp = settled[calls[p].uid]
        /\ settled[calls[p].uid] >= 3600000
        /\ users[calls[p].uid].hasBalance /\ users[calls[p].uid].tetoBalance > 0

\* C6: over any sequence of claims and refreshes, no hour bucket of an account
\* is credited by more than one settlement.
C6_HourCreditedAtMostOnce ==
    \A a \in Accounts : \A b \in Buckets : paid[a][b] <= 1

\* two settlements have credited two different hours of an account that was also refreshed
C6_Witness ==
    \E a \in Accounts :
        /\ paid[a][0] = 1 /\ paid[a][1] = 1
        /\ \E p \in Procs : /\ calls[p].pc = "done" /\ calls[p].op = "updateUserWallet"
                            /\ calls[p].uid = a /\ calls[p].result.code = "ok"

\* C7 (as claimed): after a claimRewards call returned RETRY_NEEDED the record exists.
C7_RecordExistsAfterRetryNeeded ==
    \A p \in Procs :
        ( /\ calls[p].pc = "done" /\ calls[p].op = "claimRewards"
          /\ calls[p].result = RetryNeeded )
        => users[calls[p].uid].exists

\* C8 (as claimed): every failure returned by claimRewards or spinTheWheel
\* leaves the store as it was.
C8_EveryFailureWritesNothing ==
    [][ \A p \in Procs : FailureReturned(p) => users' = users ]_vars

\* C8 (amended): every failure other than NO_REWARD leaves the store as it
\* was; a NO_REWARD failure commits the claim's writes, which leave the balance
\* as it was.
C8_FailuresExceptNoRewardWriteNothing ==
    [][ \A p \in Procs :
          FailureReturned(p) =>
            IF calls'[p].result = NoReward
            THEN /\ users'[calls[p].uid].hasBalance = users[calls[p].uid].hasBalance
                 /\ users'[calls[p].uid].tetoBalance = users[calls[p].uid].tetoBalance
            ELSE users' = users ]_vars

\* a claim that had buffered a credit gave up after conflicts
C8_Witness ==
    \E p \in Procs :
        /\ calls[p].pc = "done" /\ calls[p].result = ClaimInternal
        /\ calls[p].attempts = MaxAttempts
        /\ users[calls[p].uid].exists

\* C9 (as claimed): updateUserWallet on an existing record never changes lastClaimTimestamp.
C9_RefreshKeepsTimestamp ==
    [][ \A p \in Procs :
          ( UpdateWriteStep(p) /\ users[calls[p].uid].exists )
          => users'[calls[p].uid].lastClaimTimestamp
                = users[calls[p].uid].lastClaimTimestamp ]_vars

\* C10 (as claimed): every stored lastClaimTimestamp is hour-aligned.
C10_TimestampHourAligned ==
    \A a \in Accounts :
        users[a].exists => users[a].lastClaimTimestamp % 3600000 = 0

\* C12: a spinTheWheel call that reads, inside its transaction, a record whose
\* balance is below 10 fails with INSUFFICIENT_BALANCE and leaves the store as it was.
C12_SpinBelowCostFails ==
    [][ \A p \in Procs :
          ( /\ SpinGetStep(p)
            /\ users[calls[p].uid].exists
            /\ (IF users[calls[p].uid].hasBalance
                 THEN users[calls[p].uid].tetoBalance ELSE 0) < 10 )
          => ( /\ calls'[p].pc = "done"
               /\ calls'[p].result = Insufficient
               /\ users' = users ) ]_vars

\* a wager refused on a record whose stored balance a lost wager had brought to 0
C12_Witness ==
    \E p \in Procs :
        /\ calls[p].pc = "done" /\ calls[p].op = "spinTheWheel"
        /\ calls[p].result = Insufficient
        /\ users[calls[p].uid].exists /\ users[calls[p].uid].hasBalance
        /\ users[calls[p].uid].tetoBalance = 0
        /\ net[calls[p].uid] = 0
        /\ \E b \in Buckets : paid[calls[p].uid][b] = 1

\* C14: a spinTheWheel transaction commits only against the balance it read:
\* the committed balance is the snapshot's, is at least 10, and the balance
\* written is not negative; a wager re-run after a conflict that now reads a
\* balance below 10 fails with INSUFFICIENT_BALANCE and writes nothing.
C14_SpinChecksCommittedBalance ==
    [][ \A p \in Procs :
          LET a == calls[p].uid
              committed == IF users[a].hasBalance THEN users[a].tetoBalance ELSE 0
          IN /\ ( Committed(p) /\ calls[p].op = "spinTheWheel" )
                => ( /\ BalanceOrZero(calls[p].doc) = committed
                     /\ committed >= 10
                     /\ users'[a].tetoBalance >= 0 )
             /\ ( /\ SpinGetStep(p) /\ calls[p].attempts > 1
                  /\ users[a].exists /\ committed < 10 )
                => ( calls'[p].result = Insufficient /\ users' = users ) ]_vars

\* of two concurrent wagers on a balance of 10 the first lost; the second was
\* refused at commit, re-ran, read the balance 0 and failed
C14_Witness ==
    \E p, q \in Procs :
        /\ p # q /\ calls[p].uid = calls[q].uid
        /\ calls[p].pc = "done" /\ calls[p].op = "spinTheWheel"
        /\ calls[p].result.code = "ok" /\ calls[p].result.prize = 0
        /\ calls[q].pc = "done" /\ calls[q].op = "spinTheWheel"
        /\ calls[q].result = Insufficient /\ calls[q].attempts = 2
        /\ users[calls[p].uid].tetoBalance = 0

\* C15: a spinTheWheel call that finds no record fails with ACCOUNT_NOT_FOUND,
\* and no step of a spinTheWheel call creates a record.
C15_SpinNeverCreatesRecord ==
    [][ \A p \in Procs :
          /\ ( SpinGetStep(p) /\ ~users[calls[p].uid].exists )
             => ( /\ calls'[p].pc = "done"
                  /\ calls'[p].result = NotFound
                  /\ users' = users )
          /\ ( /\ calls[p].op = "spinTheWheel" /\ calls[p].pc \in {"get", "commit"}
               /\ calls'[p].pc # calls[p].pc )
             => users'[calls[p].uid].exists = users[calls[p].uid].exists ]_vars

C15_Witness ==
    \E p \in Procs :
        /\ calls[p].pc = "done" /\ calls[p].op = "spinTheWheel"
        /\ calls[p].result = NotFound
        /\ ~users[calls[p].uid].exists

\* C16: a call of any of the three callables without a caller identity ends in
\* the step that starts it, with UNAUTHENTICATED: it has no step that reads the
\* store or asks the oracle, and the store is as it was.
C16_UnauthenticatedFailsFirst ==
    [][ \A p \in Procs :
          ( /\ calls'[p] # calls[p]
            /\ calls'[p].op # "none" /\ calls'[p].uid = NoAuth )
          => ( /\ calls[p].pc \in {"idle", "done"}
               /\ calls'[p].pc = "done"
               /\ calls'[p].result.code = "unauthenticated"
               /\ users' = users ) ]_vars

\* an unauthenticated claim and an unauthenticated wager were both refused
\* while the store holds a record
C16_Witness ==
    \E p, q \in Procs :
        /\ calls[p].pc = "done" /\ calls[p].op = "claimRewards"
        /\ calls[p].uid = NoAuth /\ calls[p].result = Unauthenticated
        /\ calls[q].pc = "done" /\ calls[q].op = "spinTheWheel"
        /\ calls[q].uid = NoAuth /\ calls[q].result = UnauthenticatedSpin
        /\ \E a \in Accounts : users[a].exists

\* C17: the calls on one account take effect one after the other, in the order
\* of their commits: a transaction commits only on the record exactly as it
\* read it, a refresh leaves the balance alone, and so the stored balance is
\* always the sum of every committed credit and debit.
C17_CommittedCallsSerialize ==
    [][ /\ \A p \in Procs :
             /\ Committed(p) => calls[p].doc = users[calls[p].uid]
             /\ UpdateWriteStep(p)
                  => /\ users'[calls[p].uid].hasBalance = users[calls[p].uid].hasBalance
                     /\ users'[calls[p].uid].tetoBalance = users[calls[p].uid].tetoBalance
        /\ \A a \in Accounts :
             (IF users'[a].hasBalance THEN users'[a].tetoBalance ELSE 0) = net'[a] ]_vars

\* a claim has credited the account while a wager that had read the earlier
\* balance is waiting to commit its own balance write
C17_Witness ==
    \E p, q \in Procs :
        /\ p # q /\ calls[p].uid = calls[q].uid
        /\ calls[p].pc = "done" /\ calls[p].op = "claimRewards"
        /\ calls[p].result.code = "ok"
        /\ calls[q].pc = "commit" /\ calls[q].op = "spinTheWheel" /\ calls[q].stale
        /\ users[calls[q].uid].tetoBalance
              = BalanceOrZero(calls[q].doc) + calls[p].result.amountClaimed

\* C18 (as claimed): whatever the oracle's outcome, the await of
\* checkNftCountOnChain hands the caller a count >= 0 and never an error: no
\* updateUserWallet or claimRewards call ends in "internal" at that await.
C18_OracleNeverRaises ==
    [][ \A p \in Procs :
          ( calls[p].pc = "oracle" /\ calls'[p].pc # "oracle" )
          => ( /\ calls'[p].result.code # "internal"
               /\ calls'[p].currentNftCount >= 0 ) ]_vars

\* a claimRewards or spinTheWheel call that has started and not yet returned
InFlight(p) ==
    /\ calls[p].op \in {"claimRewards", "spinTheWheel"}
    /\ calls[p].pc \in {"get", "oracle", "commit"}
\* the next step of task p
TaskStep(p) ==
    \/ ClaimGet(p)
    \/ \E resp \in OracleResponses : ClaimCreate(p, resp) \/ ClaimOracle(p, resp)
    \/ ClaimCommit(p)
    \/ \E r \in RandomDraws, r2 \in SecondDraws : SpinGet(p, r, r2)
    \/ SpinCommit(p)
    \/ TxnRetry(p)
    \/ TxnExhausted(p)
\* what a call has left: the attempts it may still start, then its place in the body
Rank(c) ==
    IF c.pc \in {"get", "oracle", "commit"}
    THEN (MaxAttempts - c.attempts) * 4
           + (IF c.pc = "get" THEN 3 ELSE IF c.pc = "oracle" THEN 2 ELSE 1)
    ELSE 0

\* C19: every claimRewards and spinTheWheel call terminates.  A call in flight
\* always has a next step and has started at most MaxAttempts attempts; each of
\* its steps strictly lowers its rank (a refused commit starts the next
\* attempt, of which there are at most MaxAttempts); and a commit refused on
\* the last attempt returns INTERNAL and leaves the store as it was.
C19_CallsTerminate ==
    /\ [](\A p \in Procs :
            InFlight(p) => ( /\ calls[p].attempts \in 1..MaxAttempts
                             /\ ENABLED TaskStep(p) ))
    /\ [][ \A p \in Procs :
            ( InFlight(p) /\ calls'[p].pc # calls[p].pc )
            => ( /\ Rank(calls'[p]) < Rank(calls[p])
                 /\ ( /\ calls[p].pc = "commit" /\ calls[p].stale
                      /\ calls[p].attempts = MaxAttempts )
                    => ( /\ calls'[p].pc = "done"
                         /\ calls'[p].result.code = "internal"
                         /\ users' = users ) ) ]_vars

\* a claim gave up with INTERNAL after its last attempt was refused
C19_Witness ==
    \E p \in Procs :
        /\ calls[p].pc = "done" /\ calls[p].op = "claimRewards"
        /\ calls[p].result = ClaimInternal /\ calls[p].attempts = MaxAttempts
        /\ MaxAttempts > 1

\* C20 (as claimed): the failures of claimRewards are told apart by their
\* type: two claimRewards calls that failed in different ways (TOO_EARLY,
\* NO_REWARD, RETRY_NEEDED, INTERNAL) carry different error codes.
C20_ClaimFailuresDistinctByCode ==
    \A p, q \in Procs :
        ( /\ calls[p].pc = "done" /\ calls[q].pc = "done"
          /\ calls[p].op = "claimRewards" /\ calls[q].op = "claimRewards"
          /\ calls[p].result.code # "ok" /\ calls[q].result.code # "ok"
          /\ calls[p].result # calls[q].result )
        => calls[p].result.code # calls[q].result.code

\* C22 (as claimed): updateUserWallet is idempotent.  On a record that only
\* updateUserWallet calls have written, a further call for which the oracle
\* reports the count already stored leaves the record exactly as it is.
C22_RefreshIdempotent ==
    [][ \A p \in Procs :
          LET a == calls[p].uid
          IN ( /\ UpdateWriteStep(p)
               /\ users[a].exists /\ created[a] # -1 /\ settled[a] = -1
               /\ users[a].nftCount = calls[p].currentNftCount )
             => users'[a] = users[a] ]_vars

\* C23 (as claimed): a claimRewards call that reads the store after an earlier
\* claimRewards call of the same account returned RETRY_NEEDED finds the
\* record, so it does not take the branch that returns RETRY_NEEDED.
C23_RetryFindsRecord ==
    [][ \A p, q \in Procs :
          ( /\ p # q /\ ClaimGetStep(q)
            /\ calls[p].pc = "done" /\ calls[p].op = "claimRewards"
            /\ calls[p].uid = calls[q].uid /\ calls[p].result = RetryNeeded )
          => ( /\ users[calls[q].uid].exists
               /\ calls'[q].doc.exists \/ calls'[q].pc = "done" ) ]_vars

\* C24: when a claimRewards transaction that passed the eligibility check
\* commits, the cached count stored is the count the oracle just reported,
\* also when that count is 0 and nothing is credited.
C24_CachedCountFollowsOracle ==
    [][ \A p \in Procs :
          ( Committed(p) /\ calls[p].op = "claimRewards" /\ calls[p].hoursToClaim >= 1 )
          => users'[calls[p].uid].nftCount = calls[p].currentNftCount ]_vars

\* a zero-reward claim replaced a cached count of 2 by 0
C24_Witness ==
    \E p, q \in Procs :
        /\ calls[p].pc = "done" /\ calls[p].op = "claimRewards"
        /\ calls[p].result = NoReward
        /\ users[calls[p].uid].nftCount = 0
        /\ calls[q].pc = "done" /\ calls[q].op = "updateUserWallet"
        /\ calls[q].uid = calls[p].uid /\ calls[q].result.nftCount = 2
        /\ settled[calls[p].uid] = users[calls[p].uid].lastClaimTimestamp

\* a step of a claimRewards call of task p
ClaimStep(p) ==
    /\ calls[p].op = "claimRewards" /\ calls[p].pc \in {"get", "oracle", "commit"}
    /\ calls'[p].pc # calls[p].pc
BalanceChanged(a) ==
    \/ users'[a].hasBalance # users[a].hasBalance
    \/ users'[a].tetoBalance # users[a].tetoBalance
TimestampChanged(a) == users'[a].lastClaimTimestamp # users[a].lastClaimTimestamp

\* C25 (as claimed): every step of a claimRewards call changes the balance and
\* lastClaimTimestamp together or changes neither.
C25_BalanceAndTimestampTogether ==
    [][ \A p \in Procs :
          ClaimStep(p) => ( BalanceChanged(calls[p].uid) <=> TimestampChanged(calls[p].uid) )
      ]_vars

\* C25 (amended): no step of a claimRewards call changes the balance without
\* moving lastClaimTimestamp to the hour start the call computed, and the
\* timestamp moves without the balance only when the transaction commits with
\* a fresh count of 0.
C25_BalanceNeverWithoutTimestamp ==
    [][ \A p \in Procs :
          LET a == calls[p].uid
          IN ClaimStep(p) =>
               /\ BalanceChanged(a)
                    => ( /\ TimestampChanged(a)
                         /\ users'[a].lastClaimTimestamp = calls[p].startOfCurrentHour )
               /\ ( TimestampChanged(a) /\ ~BalanceChanged(a) )
                    => ( /\ calls[p].pc = "commit" /\ calls[p].currentNftCount = 0
                         /\ calls'[p].result = NoReward ) ]_vars

\* one claim credited (both fields moved), a later one found no assets (only
\* the timestamp moved)
C25_Witness ==
    \E p, q \in Procs :
        /\ p # q /\ calls[p].uid = calls[q].uid
        /\ calls[p].pc = "done" /\ calls[p].op = "claimRewards"
        /\ calls[p].result.code = "ok"
        /\ calls[q].pc = "done" /\ calls[q].op = "claimRewards"
        /\ calls[q].result = NoReward
        /\ users[calls[p].uid].tetoBalance = calls[p].result.amountClaimed
        /\ users[calls[p].uid].lastClaimTimestamp > calls[p].startOfCurrentHour

\* C27 (as claimed): the updateUserWallet write that creates a record stores
\* the count the oracle reported and sets lastClaimTimestamp to the start of
\* the hour before the current one.
C27_FirstRefreshSeedsPreviousHour ==
    [][ \A p \in Procs :
          ( UpdateWriteStep(p) /\ ~users[calls[p].uid].exists )
          => ( /\ users'[calls[p].uid].exists
               /\ users'[calls[p].uid].nftCount = calls[p].currentNftCount
               /\ users'[calls[p].uid].lastClaimTimestamp
                     = (Now - (Now % 3600000)) - 3600000 ) ]_vars

\* C29 (as claimed): a claimRewards or spinTheWheel call that reads a record
\* without the balance field fails with INTERNAL; no default stands in for
\* the missing balance.
C29_MissingBalanceIsInternal ==
    [][ \A p \in Procs :
          ( /\ ClaimGetStep(p) \/ SpinGetStep(p)
            /\ users[calls[p].uid].exists /\ ~users[calls[p].uid].hasBalance )
          => ( calls'[p].pc = "done" /\ calls'[p].result.code = "internal" ) ]_vars

\* C32 (as claimed): for an account a claim has settled, once an hour boundary
\* has passed since that settlement the next claimRewards call is not turned
\* away as too early, whatever updateUserWallet calls came in between; with at
\* least one asset reported it then pays a positive reward.
C32_ClaimAfterBoundarySucceeds ==
    [][ \A p \in Procs :
          LET a == calls[p].uid
          IN ( /\ ClaimGetStep(p)
               /\ users[a].exists /\ users[a].nftCount >= 1
               /\ settled[a] # -1
               /\ Now - (Now % 3600000) > settled[a] )
             => calls'[p].result # TooEarly ]_vars

\* a step of a spinTheWheel call of task p
SpinStep(p) ==
    /\ calls[p].op = "spinTheWheel" /\ calls[p].pc \in {"get", "commit"}
    /\ calls'[p].pc # calls[p].pc

\* C34: spinTheWheel changes only the balance field of the account record:
\* lastClaimTimestamp and the cached count (and every other account) are
\* unchanged by every step of a wager, and a rejected wager changes nothing.
C34_SpinChangesOnlyBalance ==
    [][ \A p \in Procs :
          LET a == calls[p].uid
          IN SpinStep(p)
             => ( /\ users'[a].exists = users[a].exists
                  /\ users'[a].lastClaimTimestamp = users[a].lastClaimTimestamp
                  /\ users'[a].nftCount = users[a].nftCount
                  /\ \A b \in Accounts \ {a} : users'[b] = users[b]
                  /\ settled' = settled
                  /\ ( calls'[p].pc = "done" /\ calls'[p].result.code # "ok" )
                        => users' = users ) ]_vars

\* a wager was accepted on a record that a claim had settled at 01:00 or later
\* with a cached count of at least 1
C34_Witness ==
    \E p \in Procs :
        /\ calls[p].pc = "done" /\ calls[p].op = "spinTheWheel"
        /\ calls[p].result.code = "ok"
        /\ users[calls[p].uid].nftCount >= 1
        /\ settled[calls[p].uid] >= 3600000
        /\ users[calls[p].uid].lastClaimTimestamp = settled[calls[p].uid]

(* ============== one caller at a time, seeded store (SpecSolo) ========== *)
\* C11 (as claimed): a claim that commits 3 hours after the write that created
\* the record, on a record no claim has settled, with 2 assets reported,
\* credits exactly 60 and sets lastClaimTimestamp to the current hour start.
C11_ThreeHoursTwoAssetsCreditSixty ==
    [][ \A p \in Procs :
          LET a == calls[p].uid
          IN ( /\ Committed(p) /\ calls[p].op = "claimRewards"
               /\ calls[p].currentNftCount = 2
               /\ settled[a] = -1
               /\ created[a] # -1 /\ Now - created[a] = 3 * 3600000
               /\ calls[p].startOfCurrentHour = Now - (Now % 3600000) )
             => ( /\ users'[a].tetoBalance
                        = (IF users[a].hasBalance THEN users[a].tetoBalance ELSE 0) + 60
                  /\ calls'[p].result.amountClaimed = 60
                  /\ users'[a].lastClaimTimestamp = Now - (Now % 3600000) ) ]_vars

\* C13: every committed spinTheWheel call writes balance - 10 + payout with
\* payout one of 0, 20, 30, the prize of the one segment it returns; from a
\* balance of 10 the result is 0, 20 or 30, and from 15 with the jackpot it is 35.
C13_SpinWritesCostAndPayout ==
    [][ \A p \in Procs :
          LET a == calls[p].uid
              balance == IF users[a].hasBalance THEN users[a].tetoBalance ELSE 0
          IN ( Committed(p) /\ calls[p].op = "spinTheWheel" )
             => ( /\ \E payout \in {0, 20, 30} :
                        /\ users'[a].tetoBalance = balance - 10 + payout
                        /\ calls'[p].result.prize = payout
                        /\ segments[calls'[p].result.prizeSegment + 1].prize = payout
                  /\ balance = 10 => users'[a].tetoBalance \in {0, 20, 30}
                  /\ ( balance = 15 /\ calls'[p].result.prize = 30 )
                        => users'[a].tetoBalance = 35 ) ]_vars

\* the seeded balance of 15 after a jackpot
C13_Witness ==
    \E p \in Procs :
        /\ calls[p].pc = "done" /\ calls[p].op = "spinTheWheel"
        /\ calls[p].result.code = "ok"
        /\ calls[p].result.prize = 30 /\ calls[p].result.prizeSegment = 2
        /\ users[calls[p].uid].tetoBalance = 35
        /\ net[calls[p].uid] = 35

\* C26: the tier follows the first draw r by fixed thresholds (r in hundredths):
\* r < 0.60 pays 0, 0.60 <= r < 0.90 pays 20, r >= 0.90 pays 30.
C26_TierByThresholds ==
    [][ \A p \in Procs :
          ( Committed(p) /\ calls[p].op = "spinTheWheel" )
          => LET r == calls[p].randomNumber
                 payout == calls'[p].result.prize
             IN /\ r < 60 => payout = 0
                /\ ( r >= 60 /\ r < 90 ) => payout = 20
                /\ r >= 90 => payout = 30 ]_vars

\* a draw of exactly 0.60 is about to pay 20
C26_Witness ==
    \E p \in Procs :
        /\ calls[p].pc = "commit" /\ calls[p].op = "spinTheWheel"
        /\ calls[p].randomNumber = 60 /\ calls[p].ret = 20
        /\ calls[p].writes.tetoBalance = BalanceOrZero(calls[p].doc) + 10

\* task p leaves the not-exists branch of claimRewards in this step, after the
\* oracle answered and the seed record was handed to transaction.set
SeedStep(p) ==
    /\ calls[p].pc = "oracle" /\ calls[p].op = "claimRewards" /\ ~calls[p].doc.exists
    /\ calls'[p].pc = "done" /\ calls'[p].result = RetryNeeded

SlotsPaying(prize) == { segments[i].segmentIndex : i \in { j \in 1..Len(segments) : segments[j].prize = prize } }
\* the slots a first draw below 0.60 can end on
LoseDraws == { PickSegment(r, r2).segmentIndex : r \in { x \in RandomDraws : x < 60 }, r2 \in SecondDraws }

\* C31 (as claimed): the table a wager draws from has six slots, four paying
\* 0, two paying 20 and one paying 30, and a lose draw ends on any of the
\* slots paying 0.
C31_FourLoseSlots ==
    \A p \in Procs :
        ( calls[p].op = "spinTheWheel" /\ calls[p].pc = "commit" )
        => ( /\ Len(segments) = 6
             /\ Cardinality(SlotsPaying(0)) = 4
             /\ Cardinality(SlotsPaying(20)) = 2
             /\ Cardinality(SlotsPaying(30)) = 1
             /\ LoseDraws = SlotsPaying(0)
             /\ calls[p].randomNumber < 60 => calls[p].seg \in SlotsPaying(0) )

\* C31 (amended): the six slots are three paying 0 (slots 1, 3, 5), two paying
\* 20 and one paying 30, and a lose draw ends on any of the three slots paying 0.
C31_ThreeLoseSlots ==
    \A p \in Procs :
        ( calls[p].op = "spinTheWheel" /\ calls[p].pc = "commit" )
        => ( /\ Len(segments) = 6
             /\ SlotsPaying(0) = {1, 3, 5}
             /\ Cardinality(SlotsPaying(20)) = 2
             /\ Cardinality(SlotsPaying(30)) = 1
             /\ LoseDraws = SlotsPaying(0)
             /\ calls[p].randomNumber < 60 => calls[p].seg \in SlotsPaying(0) )

\* a lose draw ended on the last of the slots paying 0
C31_Witness ==
    \E p \in Procs :
        /\ calls[p].op = "spinTheWheel" /\ calls[p].pc = "commit"
        /\ calls[p].randomNumber = 59 /\ calls[p].seg = 5 /\ calls[p].ret = 0

\* C33: in every spinTheWheel result the returned slot and payout agree with
\* the payout table: slot in {1, 3, 5} iff payout 0, slot in {0, 4} iff payout
\* 20, slot 2 iff payout 30, and the balance written uses that same payout.
C33_SlotAndPayoutAgree ==
    [][ \A p \in Procs :
          LET a == calls[p].uid
              slot == calls'[p].result.prizeSegment
              payout == calls'[p].result.prize
          IN ( Committed(p) /\ calls[p].op = "spinTheWheel" )
             => ( /\ slot \in 0..5
                  /\ slot \in {1, 3, 5} <=> payout = 0
                  /\ slot \in {0, 4} <=> payout = 20
                  /\ slot = 2 <=> payout = 30
                  /\ users'[a].tetoBalance
                        = BalanceOrZero(users[a]) - 10 + payout ) ]_vars

\* a spin from the seeded balance of 15 returned the second of the two slots that pay 20
C33_Witness ==
    \E p \in Procs :
        /\ calls[p].pc = "done" /\ calls[p].op = "spinTheWheel"
        /\ calls[p].result.code = "ok"
        /\ calls[p].result.prizeSegment = 4 /\ calls[p].result.prize = 20
        /\ users[calls[p].uid].tetoBalance = 25

(* ================= two accounts side by side (SpecPair) ================ *)
\* C30: a step of a call for one account leaves the record of every other
\* account as it was, and a transaction of one account is never invalidated
\* by what happens to another account: its commit is never refused.
C30_AccountsIndependent ==
    /\ [](\A p \in Procs : ~calls[p].stale)
    /\ [][ \A p \in Procs :
            calls'[p] # calls[p]
            => \A b \in Accounts : b # calls'[p].uid => users'[b] = users[b] ]_vars

\* walletA's claim was credited while walletB's wager, read before that
\* commit, still waits for its own
C30_Witness ==
    /\ calls["t1"].pc = "done" /\ calls["t1"].op = "claimRewards"
    /\ calls["t1"].uid = "walletA" /\ calls["t1"].result.code = "ok"
    /\ users["walletA"].tetoBalance = calls["t1"].result.amountClaimed
    /\ calls["t2"].pc = "commit" /\ calls["t2"].op = "spinTheWheel"
    /\ calls["t2"].uid = "walletB" /\ ~calls["t2"].stale
    /\ calls["t2"].doc = users["walletB"]
    /\ net["walletB"] = 10

(* ===================== the sign-in store (SpecAuth) ==================== *)
\* C21: once a verifyAuthSignature attempt that found a stored challenge has
\* returned, with a token or with a failure, that challenge is no longer
\* stored; and an attempt that then reads the key's slot while nothing new
\* was stored fails with not-found.
C21_ChallengeConsumedByAttempt ==
    /\ [](\A p \in Procs :
            ( /\ logins[p].op = "verifyAuthSignature" /\ logins[p].pc = "done"
              /\ logins[p].message # NoChallenge )
            => challenges[logins[p].publicKey] # logins[p].message)
    /\ [][ \A p \in Procs :
            ( /\ logins[p].op = "verifyAuthSignature" /\ logins[p].pc = "get"
              /\ logins'[p] # logins[p]
              /\ challenges[logins[p].publicKey] = NoChallenge )
            => ( logins'[p].pc = "done" /\ logins'[p].code = "not-found" ) ]_vars

\* an attempt with a wrong signature consumed the challenge, and a second
\* attempt carrying the right signature for it found nothing
C21_Witness ==
    \E p, q \in Procs :
        /\ p # q
        /\ logins[p].op = "verifyAuthSignature" /\ logins[p].pc = "done"
        /\ logins[p].code = "unauthenticated" /\ logins[p].message = 1
        /\ logins[q].op = "verifyAuthSignature" /\ logins[q].pc = "done"
        /\ logins[q].code = "not-found" /\ logins[q].signature = 1
        /\ logins[q].publicKey = logins[p].publicKey
        /\ tokens[1] = 0

\* C35 (as claimed): one issued challenge yields at most one session token,
\* also when two verifyAuthSignature calls carrying the same valid signature
\* run concurrently.
C35_OneTokenPerChallenge ==
    \A m \in Messages : tokens[m] <= 1

\* the verifyAuthSignature call of task p reads the key's slot in this step
VerifyGetStep(p) ==
    /\ logins[p].op = "verifyAuthSignature" /\ logins[p].pc = "get"
    /\ logins'[p] # logins[p]

\* C36: verifyAuthSignature issues a token for a public key only if, when it
\* reads the key's slot, a challenge is stored there and the signature
\* verifies against that stored message; once getAuthChallenge has overwritten
\* the slot, an attempt that reads it with a signature over a superseded
\* message is rejected with "unauthenticated" and gets no token.
C36_TokenOnlyForStoredChallenge ==
    /\ [](\A p \in Procs :
            ( logins[p].op = "verifyAuthSignature" /\ logins[p].pc = "token" )
            => ( /\ logins[p].message # NoChallenge
                 /\ logins[p].isVerified
                 /\ logins[p].signature = logins[p].message ))
    /\ [][ \A p \in Procs :
            LET stored == challenges[logins[p].publicKey]
            IN /\ ( VerifyGetStep(p) /\ logins'[p].isVerified )
                    => ( stored # NoChallenge /\ logins[p].signature = stored
                         /\ logins'[p].message = stored )
               /\ ( VerifyGetStep(p) /\ stored # NoChallenge
                    /\ logins[p].signature \in Messages /\ logins[p].signature < stored )
                    => ( logins'[p].pc = "delete" /\ ~logins'[p].isVerified )
               /\ ( /\ logins[p].op = "verifyAuthSignature" /\ logins[p].pc # "done"
                    /\ logins'[p].pc = "done" /\ logins'[p].code = "ok" )
                    => ( /\ logins[p].pc = "token"
                         /\ tokens' = [tokens EXCEPT ![logins[p].message] = @ + 1] )
               /\ ( logins[p].op = "verifyAuthSignature" /\ logins[p].pc = "delete"
                    /\ ~logins[p].isVerified /\ logins'[p] # logins[p] )
                    => ( logins'[p].pc = "done" /\ logins'[p].code = "unauthenticated"
                         /\ tokens' = tokens ) ]_vars

\* the slot was overwritten with message 2; an attempt signed over message 1
\* read message 2 and was rejected, and no token was issued for either
C36_Witness ==
    \E p \in Procs :
        /\ logins[p].op = "verifyAuthSignature" /\ logins[p].pc = "done"
        /\ logins[p].code = "unauthenticated"
        /\ logins[p].signature = 1 /\ logins[p].message = 2
        /\ tokens[1] = 0 /\ tokens[2] = 0

====
